---- MODULE Spec2Model ----
(***************************************************************************)
(* RENPHO CSV import of the health-tracker dashboard: the parsing service  *)
(* (transformRenphoData, groupByDate, averageDailyMeasurements), the       *)
(* import service (parseFile, processImport, previewData,                  *)
(* getImportStatistics, validateFile), the validation service and the      *)
(* useRenphoImport hook that drives them.                                  *)
(*                                                                         *)
(* Numbers are JavaScript numbers restricted to multiples of 0.1; the      *)
(* model stores them in tenths (70.0 kg is 700).  Strings that the code    *)
(* takes apart (dates) are sequences of one-character strings.             *)
(***************************************************************************)
EXTENDS Integers, Sequences, FiniteSets, TLC

\* ------------------------------------------------------------------ bounds
\* longest CSV file (data rows) a file of the hook specification holds
MaxRows == 2
\* longest record list handed to groupByDate in the aggregation specification
MaxRecords == 3
\* number of parses that may be in flight at once
MaxParses == 1
\* number of imports that may be in flight at once
MaxImports == 1
\* number of progress intervals that may be running at once
MaxTimers == 2

\* ------------------------------------------------------------ JS numbers
\* the value Number() gives for a non-numeric string; it is no multiple of 0.1
NaN == -99999999
NULL == [none |-> TRUE]

isNaN(x) == x = NaN

\* a + b of JavaScript
JsAdd(a, b) == IF isNaN(a) \/ isNaN(b) THEN NaN ELSE a + b

\* Math.round(n / d) for an exact quotient n / d, d > 0: the nearest integer,
\* a tie going towards +Infinity.  (The double the code divides to can lie
\* just below a tie that no double represents, 181.65 say, and then rounds
\* down; a tie a double represents, -0.75 say, rounds as here.)
MathRound(n, d) == IF isNaN(n) THEN NaN ELSE (2 * n + d) \div (2 * d)

\* ------------------------------------------------------------ JS strings
Digits == <<"0", "1", "2", "3", "4", "5", "6", "7", "8", "9">>
DigitSet == {Digits[i] : i \in 1..10}
DigitVal(c) == CHOOSE v \in 0..9 : Digits[v + 1] = c

RECURSIVE SplitFrom(_, _, _)
\* the pieces of s between occurrences of sep, cur being the piece begun
SplitFrom(s, sep, cur) ==
  IF s = <<>> THEN <<cur>>
  ELSE IF Head(s) = sep THEN <<cur>> \o SplitFrom(Tail(s), sep, <<>>)
  ELSE SplitFrom(Tail(s), sep, Append(cur, Head(s)))

split(s, sep) == SplitFrom(s, sep, <<>>)

RECURSIVE trimStart(_)
trimStart(s) == IF s # <<>> /\ Head(s) = " " THEN trimStart(Tail(s)) ELSE s

RECURSIVE trimEnd(_)
trimEnd(s) ==
  IF s # <<>> /\ s[Len(s)] = " " THEN trimEnd(SubSeq(s, 1, Len(s) - 1)) ELSE s

trim(s) == trimEnd(trimStart(s))

RECURSIVE padStart(_, _, _)
padStart(s, n, c) == IF Len(s) >= n THEN s ELSE padStart(<<c>> \o s, n, c)

RECURSIVE DigitRun(_, _)
\* the value of the leading run of digits of s, acc being the value so far
DigitRun(s, acc) ==
  IF s # <<>> /\ Head(s) \in DigitSet
    THEN DigitRun(Tail(s), 10 * acc + DigitVal(Head(s)))
    ELSE acc

\* parseInt(s): leading white space is skipped, then the leading digits are
\* read; NaN when there is none
parseInt(s) ==
  LET t == trimStart(s)
  IN  IF t # <<>> /\ Head(t) \in DigitSet THEN DigitRun(t, 0) ELSE NaN

\* ---------------------------------------------------------------- dates
AllDigits(s) == \A i \in 1..Len(s) : s[i] \in DigitSet

DaysInMonth(y, m) ==
  IF m \in {4, 6, 9, 11} THEN 30
  ELSE IF m # 2 THEN 31
  ELSE IF (y % 4 = 0 /\ y % 100 # 0) \/ y % 400 = 0 THEN 29 ELSE 28

\* the day number of the calendar day y-m-d (days since 0000-03-01)
DayNumber(y, m, d) ==
  LET yy == IF m <= 2 THEN y - 1 ELSE y
      mm == IF m > 2 THEN m - 3 ELSE m + 9
  IN  365 * yy + (yy \div 4) - (yy \div 100) + (yy \div 400) + ((153 * mm + 2) \div 5) + d - 1

\* /^\d{4}-\d{2}-\d{2}$/.test(s)
IsoShape(s) ==
  /\ Len(s) = 10
  /\ s[5] = "-" /\ s[8] = "-"
  /\ AllDigits(SubSeq(s, 1, 4)) /\ AllDigits(SubSeq(s, 6, 7))
  /\ AllDigits(SubSeq(s, 9, 10))

\* new Date(s).getTime() for a date-only string, in days: the day number of
\* the date when s is YYYY-MM-DD naming a calendar day, NaN (Invalid Date)
\* otherwise
getTime(s) ==
  IF IsoShape(s)
  THEN LET y == DigitRun(SubSeq(s, 1, 4), 0)
           m == DigitRun(SubSeq(s, 6, 7), 0)
           d == DigitRun(SubSeq(s, 9, 10), 0)
       IN  IF m \in 1..12 /\ d \in 1..DaysInMonth(y, m)
             THEN DayNumber(y, m, d)
             ELSE NaN
  ELSE NaN

\* ------------------------------------------------------- raw CSV rows
\* A cell of a parsed row (Papa.parse with dynamicTyping): a number, null (an
\* empty or absent field) or a string that is no number.
Num(v) == [t |-> "num", v |-> v]
Null == [t |-> "null", v |-> 0]
Str == [t |-> "str", v |-> 0]
\* a text cell (Fecha, ' Hora') holding the characters s
Txt(s) == [t |-> "txt", s |-> s]
NoTxt == [t |-> "null", s |-> <<>>]

\* Number(cell)
Number(c) == IF c.t = "num" THEN c.v ELSE IF c.t = "null" THEN 0 ELSE NaN

\* cell || 0
OrZero(c) == IF c.t = "null" \/ (c.t = "num" /\ (c.v = 0 \/ isNaN(c.v))) THEN Num(0) ELSE c

DecimalFields ==
  {"weight", "bmi", "body_fat_percentage", "skeletal_muscle_percentage",
   "fat_free_body_weight", "subcutaneous_fat_percentage", "visceral_fat",
   "body_water_percentage", "muscle_mass", "bone_mass", "protein_percentage"}
IntegerFields == {"basal_metabolic_rate", "metabolic_age", "body_type"}
NumericFields == DecimalFields \cup IntegerFields

\* isoDate with the century pivot at 49
isoDatePivot49(dateParts) ==
  LET day == dateParts[1]
      month == dateParts[2]
      year == dateParts[3]
      py == parseInt(year)
      fullYear == IF ~isNaN(py) /\ py < 49 THEN <<"2", "0">> \o year
                  ELSE <<"1", "9">> \o year
  IN  fullYear \o <<"-">> \o padStart(month, 2, "0") \o <<"-">> \o padStart(day, 2, "0")

\* the ISO date of a row whose Fecha splits into day, month and year
isoDate(dateParts) ==
  LET day == dateParts[1]
      month == dateParts[2]
      year == dateParts[3]
      py == parseInt(year)
      fullYear == IF ~isNaN(py) /\ py < 50 THEN <<"2", "0">> \o year
                  ELSE <<"1", "9">> \o year
  IN  fullYear \o <<"-">> \o padStart(month, 2, "0") \o <<"-">> \o padStart(day, 2, "0")

\* the body of the map callback of transformRenphoData for one row: the
\* canonical record, or the failure the callback throws
TransformRow(row) ==
  IF row.Fecha.t # "txt" \/ row.Hora.t # "txt" THEN [ok |-> FALSE]
  ELSE LET dateParts == split(row.Fecha.s, "/")
       IN  IF Len(dateParts) # 3 THEN [ok |-> FALSE]
           ELSE [ok |-> TRUE,
                 rec |-> [date |-> isoDate(dateParts),
                          time |-> trim(row.Hora.s),
                          weight |-> Number(row.Peso),
                          bmi |-> Number(row.IMC),
                          body_fat_percentage |-> Number(row.GrasaCorporal),
                          skeletal_muscle_percentage |-> Number(OrZero(row.MusculoEsqueletico)),
                          fat_free_body_weight |-> Number(OrZero(row.PesoSinGrasa)),
                          subcutaneous_fat_percentage |-> Number(OrZero(row.GrasaSubcutanea)),
                          visceral_fat |-> Number(OrZero(row.GrasaVisceral)),
                          body_water_percentage |-> Number(OrZero(row.AguaCorporal)),
                          muscle_mass |-> Number(OrZero(row.MasaMuscular)),
                          bone_mass |-> Number(OrZero(row.MasaOsea)),
                          protein_percentage |-> Number(OrZero(row.Proteina)),
                          basal_metabolic_rate |-> Number(OrZero(row.TMB)),
                          metabolic_age |-> Number(OrZero(row.EdadMetabolica)),
                          body_type |-> Number(OrZero(row.TipoCuerpo)),
                          source |-> "renpho_import"]]

\* rawData.map(...): every row transformed, in order; the first row whose
\* callback throws aborts the map with its 1-based row number
transformRenphoData(rawData) ==
  LET bad == {i \in 1..Len(rawData) : ~TransformRow(rawData[i]).ok}
  IN  IF bad # {}
        THEN [ok |-> FALSE, row |-> CHOOSE i \in bad : \A j \in bad : i <= j]
        ELSE [ok |-> TRUE,
              data |-> [i \in 1..Len(rawData) |-> TransformRow(rawData[i]).rec]]

\* ------------------------------------------------------------ grouping
\* An object keyed by date is the sequence of its entries in insertion order
\* (Object.entries order: a date holds two hyphens, so it is never an array
\* index and keys keep their insertion order).
HasKey(grouped, date) == \E k \in 1..Len(grouped) : grouped[k].date = date

\* PushRecord with the bucket assigned instead of extended
PushRecordOverwrite(grouped, record) ==
  IF HasKey(grouped, record.date)
    THEN [k \in 1..Len(grouped) |->
            IF grouped[k].date = record.date
              THEN [grouped[k] EXCEPT !.records = <<record>>]
              ELSE grouped[k]]
    ELSE Append(grouped, [date |-> record.date, records |-> <<record>>])

\* grouped[record.date].push(record), the bucket created when absent
PushRecord(grouped, record) ==
  IF HasKey(grouped, record.date)
    THEN [k \in 1..Len(grouped) |->
            IF grouped[k].date = record.date
              THEN [grouped[k] EXCEPT !.records = Append(@, record)]
              ELSE grouped[k]]
    ELSE Append(grouped, [date |-> record.date, records |-> <<record>>])

RECURSIVE GroupFrom(_, _)
GroupFrom(data, grouped) ==
  IF data = <<>> THEN grouped
  ELSE GroupFrom(Tail(data), PushRecord(grouped, Head(data)))

RECURSIVE FilterDuplicatesAll(_)
\* FilterDuplicates with the filter records.length > 0
FilterDuplicatesAll(grouped) ==
  IF grouped = <<>> THEN <<>>
  ELSE LET rest == FilterDuplicatesAll(Tail(grouped))
           e == Head(grouped)
       IN  IF Len(e.records) > 0
             THEN <<[date |-> e.date, count |-> Len(e.records)]>> \o rest
             ELSE rest

RECURSIVE FilterDuplicates(_)
\* Object.entries(grouped).filter(records.length > 1).map({date, count})
FilterDuplicates(grouped) ==
  IF grouped = <<>> THEN <<>>
  ELSE LET rest == FilterDuplicates(Tail(grouped))
           e == Head(grouped)
       IN  IF Len(e.records) > 1
             THEN <<[date |-> e.date, count |-> Len(e.records)]>> \o rest
             ELSE rest

\* groupByDate with count the number of records beyond the first
groupByDateExtra(data) ==
  LET grouped == GroupFrom(data, <<>>)
      duplicates == FilterDuplicates(grouped)
  IN  [grouped |-> grouped,
       duplicates |-> [k \in 1..Len(duplicates) |->
                         [duplicates[k] EXCEPT !.count = @ - 1]]]

groupByDate(data) ==
  LET grouped == GroupFrom(data, <<>>)
  IN  [grouped |-> grouped, duplicates |-> FilterDuplicates(grouped)]

\* ----------------------------------------------------------- averaging
RECURSIVE SumField(_, _, _)
\* records.reduce((sum, r) => sum + r[f], acc)
SumField(records, f, acc) ==
  IF records = <<>> THEN acc
  ELSE SumField(Tail(records), f, JsAdd(acc, Head(records)[f]))

\* roundToDecimal with Math.floor for Math.round
roundToDecimalFloor(n, d) == IF isNaN(n) THEN NaN ELSE n \div d

\* roundToDecimal(n / d, 1) = Math.round((n / d) * 10) / 10, the quotient and the
\* result both in tenths
roundToDecimal(n, d) == MathRound(n, d)

\* Math.round(n / d) for a quotient in tenths: a whole number, in tenths
roundToInteger(n, d) == IF isNaN(n) THEN NaN ELSE 10 * MathRound(n, 10 * d)

\* averaged with the time of the last record
averagedLastTime(date, records) ==
  LET count == Len(records)
      first == records[1]
  IN  [f \in DOMAIN first |->
         IF f = "date" THEN date
         ELSE IF f = "time" THEN records[count].time
         ELSE IF f \in DecimalFields THEN roundToDecimal(SumField(records, f, 0), count)
         ELSE IF f \in IntegerFields THEN roundToInteger(SumField(records, f, 0), count)
         ELSE "renpho_import"]

\* averaged with the sums divided by count + 1
averagedOffByOne(date, records) ==
  LET count == Len(records) + 1
      first == records[1]
  IN  [f \in DOMAIN first |->
         IF f = "date" THEN date
         ELSE IF f = "time" THEN first.time
         ELSE IF f \in DecimalFields THEN roundToDecimal(SumField(records, f, 0), count)
         ELSE IF f \in IntegerFields THEN roundToInteger(SumField(records, f, 0), count)
         ELSE "renpho_import"]

\* averaged with the sums left undivided
averagedSum(date, records) ==
  LET first == records[1]
  IN  [f \in DOMAIN first |->
         IF f = "date" THEN date
         ELSE IF f = "time" THEN first.time
         ELSE IF f \in DecimalFields THEN roundToDecimal(SumField(records, f, 0), 1)
         ELSE IF f \in IntegerFields THEN roundToInteger(SumField(records, f, 0), 1)
         ELSE "renpho_import"]

\* the record averageDailyMeasurements builds for one entry of grouped
averaged(date, records) ==
  LET count == Len(records)
      first == records[1]
  IN  [f \in DOMAIN first |->
         IF f = "date" THEN date
         ELSE IF f = "time" THEN first.time
         ELSE IF f \in DecimalFields THEN roundToDecimal(SumField(records, f, 0), count)
         ELSE IF f \in IntegerFields THEN roundToInteger(SumField(records, f, 0), count)
         ELSE "renpho_import"]

averageDailyMeasurements(grouped) ==
  [k \in 1..Len(grouped) |-> averaged(grouped[k].date, grouped[k].records)]

\* ---------------------------------------------------------- validation
\* weightValidationSchema.safeParse: the issues, in the order of the schema's
\* keys; a field yields at most one issue
SchemaIssue(path, v, lo, hi, loMsg, hiMsg) ==
  IF isNaN(v) THEN <<[path |-> path, message |-> "Expected number, received nan"]>>
  ELSE IF v < lo THEN <<[path |-> path, message |-> loMsg]>>
  ELSE IF v > hi THEN <<[path |-> path, message |-> hiMsg]>>
  ELSE <<>>

\* weightValidationSchema with open ranges (a bound itself is an issue)
weightValidationSchemaOpen(m) ==
  SchemaIssue("weight", m.weight, 301, 2999, "Minimum weight is 30kg", "Maximum weight is 300kg")
  \o SchemaIssue("bmi", m.bmi, 101, 599, "BMI too low", "BMI too high")
  \o SchemaIssue("body_fat_percentage", m.body_fat_percentage, 31, 699,
                 "Body fat percentage too low", "Body fat percentage too high")

weightValidationSchema(m) ==
  SchemaIssue("weight", m.weight, 300, 3000, "Minimum weight is 30kg", "Maximum weight is 300kg")
  \o SchemaIssue("bmi", m.bmi, 100, 600, "BMI too low", "BMI too high")
  \o SchemaIssue("body_fat_percentage", m.body_fat_percentage, 30, 700,
                 "Body fat percentage too low", "Body fat percentage too high")

\* !isNaN(date.getTime()) && /^\d{4}-\d{2}-\d{2}$/.test(dateString)
isValidDate(dateString) == ~isNaN(getTime(dateString)) /\ IsoShape(dateString)

toLowerCase(c) ==
  IF c = "A" THEN "a" ELSE IF c = "P" THEN "p" ELSE IF c = "M" THEN "m" ELSE c

Meridiems == {<<>>, <<"a", ".", "m", ".">>, <<"p", ".", "m", ".">>, <<"a", "m">>, <<"p", "m">>}

\* /^(\d{1,2}):(\d{2})(:(\d{2}))?\s*(a\.m\.|p\.m\.|AM|PM)?$/i.test(timeString.trim())
isValidTime(timeString) ==
  LET t == trim(timeString)
      n == Len(t)
  IN  \E h \in 1..2 : \E sec \in {0, 3} :
        LET clock == h + 3 + sec
        IN  /\ n >= clock
            /\ AllDigits(SubSeq(t, 1, h))
            /\ t[h + 1] = ":"
            /\ AllDigits(SubSeq(t, h + 2, h + 3))
            /\ sec = 3 => (t[h + 4] = ":" /\ AllDigits(SubSeq(t, h + 5, h + 6)))
            /\ LET rest == trimStart(SubSeq(t, clock + 1, n))
               IN  [i \in 1..Len(rest) |-> toLowerCase(rest[i])] \in Meridiems

\* a range warning of validateSingleMeasurement: v < lo || v > hi
Unusual(rowNumber, field, v, lo, hi) ==
  IF ~isNaN(v) /\ (v < lo \/ v > hi)
    THEN <<[kind |-> "unusual", row |-> rowNumber, field |-> field, value |-> v]>>
    ELSE <<>>

\* validateSingleMeasurement with the skeletal muscle check pushing an error
validateSingleMeasurementStrict(measurement, rowNumber) ==
  LET issues == weightValidationSchema(measurement)
      muscle == Unusual(rowNumber, "skeletal_muscle_percentage",
                        measurement.skeletal_muscle_percentage, 0, 1000)
      errors ==
        [i \in 1..Len(issues) |->
           [kind |-> "range", row |-> rowNumber, path |-> issues[i].path,
            message |-> issues[i].message]]
        \o [i \in 1..Len(muscle) |->
              [kind |-> "range", row |-> rowNumber, path |-> "skeletal_muscle_percentage",
               message |-> "seems unusual"]]
        \o (IF ~isValidDate(measurement.date)
              THEN <<[kind |-> "date", row |-> rowNumber, path |-> "date",
                      message |-> "Invalid date format"]>>
              ELSE <<>>)
      warnings ==
        Unusual(rowNumber, "body_water_percentage", measurement.body_water_percentage, 300, 800)
        \o Unusual(rowNumber, "visceral_fat", measurement.visceral_fat, 0, 300)
        \o Unusual(rowNumber, "basal_metabolic_rate", measurement.basal_metabolic_rate, 8000, 40000)
        \o Unusual(rowNumber, "metabolic_age", measurement.metabolic_age, 100, 1200)
        \o (IF ~isValidTime(measurement.time)
              THEN <<[kind |-> "time", row |-> rowNumber, field |-> "time", value |-> 0]>>
              ELSE <<>>)
  IN  [errors |-> errors, warnings |-> warnings, isValid |-> errors = <<>>]

validateSingleMeasurement(measurement, rowNumber) ==
  LET issues == weightValidationSchema(measurement)
      errors ==
        [i \in 1..Len(issues) |->
           [kind |-> "range", row |-> rowNumber, path |-> issues[i].path,
            message |-> issues[i].message]]
        \o (IF ~isValidDate(measurement.date)
              THEN <<[kind |-> "date", row |-> rowNumber, path |-> "date",
                      message |-> "Invalid date format"]>>
              ELSE <<>>)
      warnings ==
        Unusual(rowNumber, "skeletal_muscle_percentage", measurement.skeletal_muscle_percentage, 0, 1000)
        \o Unusual(rowNumber, "body_water_percentage", measurement.body_water_percentage, 300, 800)
        \o Unusual(rowNumber, "visceral_fat", measurement.visceral_fat, 0, 300)
        \o Unusual(rowNumber, "basal_metabolic_rate", measurement.basal_metabolic_rate, 8000, 40000)
        \o Unusual(rowNumber, "metabolic_age", measurement.metabolic_age, 100, 1200)
        \o (IF ~isValidTime(measurement.time)
              THEN <<[kind |-> "time", row |-> rowNumber, field |-> "time", value |-> 0]>>
              ELSE <<>>)
  IN  [errors |-> errors, warnings |-> warnings, isValid |-> errors = <<>>]

RECURSIVE ValidateEach(_, _)
\* data.forEach((measurement, index) => ...), from row number rowNumber on
ValidateEach(data, rowNumber) ==
  IF data = <<>> THEN [errors |-> <<>>, warnings |-> <<>>]
  ELSE LET v == validateSingleMeasurement(Head(data), rowNumber)
           rest == ValidateEach(Tail(data), rowNumber + 1)
       IN  [errors |-> v.errors \o rest.errors, warnings |-> v.warnings \o rest.warnings]

SetMin(S) == CHOOSE x \in S : \A y \in S : x <= y
SetMax(S) == CHOOSE x \in S : \A y \in S : x >= y

\* the day ten years before the day today (setFullYear(getFullYear() - 10)),
\* today given as YYYY-MM-DD
TenYearsAgo(today) ==
  LET y == DigitRun(SubSeq(today, 1, 4), 0) - 10
      m == DigitRun(SubSeq(today, 6, 7), 0)
      d == DigitRun(SubSeq(today, 9, 10), 0)
  IN  IF d <= DaysInMonth(y, m) THEN DayNumber(y, m, d) ELSE DayNumber(y, m + 1, 1)

\* validateDateRange, evaluated at an instant within the day today; a date is
\* the midnight that begins it
validateDateRange(data, today) ==
  LET dates == {getTime(data[i].date) : i \in 1..Len(data)} \ {NaN}
  IN  IF dates = {}
        THEN [errors |-> <<[kind |-> "dates", row |-> 0, path |-> "date",
                            message |-> "No valid dates found in the data"]>>,
              warnings |-> <<>>, isValid |-> FALSE]
        ELSE LET minDate == SetMin(dates)
                 maxDate == SetMax(dates)
                 daysDiff == maxDate - minDate
             IN  [errors |-> <<>>,
                  warnings |->
                    (IF maxDate > getTime(today)
                       THEN <<[kind |-> "future", row |-> 0, field |-> "date", value |-> maxDate]>>
                       ELSE <<>>)
                    \o (IF minDate <= TenYearsAgo(today)
                          THEN <<[kind |-> "old", row |-> 0, field |-> "date", value |-> minDate]>>
                          ELSE <<>>)
                    \o (IF daysDiff > 365
                          THEN <<[kind |-> "span", row |-> 0, field |-> "date", value |-> daysDiff]>>
                          ELSE <<>>),
                  isValid |-> TRUE]

\* estimatedHeight < 1.2 || estimatedHeight > 2.5 for sqrt(weight / bmi):
\* weight / bmi < 1.44 or > 6.25
InconsistentBmi(m) ==
  /\ ~isNaN(m.weight) /\ ~isNaN(m.bmi)
  /\ m.weight > 0 /\ m.bmi > 0
  /\ (100 * m.weight < 144 * m.bmi \/ 100 * m.weight > 625 * m.bmi)

validateMeasurementConsistency(data) ==
  IF Len(data) < 2 THEN [errors |-> <<>>, warnings |-> <<>>, isValid |-> TRUE]
  ELSE LET weights == {data[i].weight : i \in {j \in 1..Len(data) :
                                                ~isNaN(data[j].weight) /\ data[j].weight > 0}}
           nWeights == Cardinality({j \in 1..Len(data) :
                                      ~isNaN(data[j].weight) /\ data[j].weight > 0})
           bmiInconsistencies == {i \in 1..Len(data) : InconsistentBmi(data[i])}
       IN  [errors |-> <<>>,
            warnings |->
              (IF nWeights > 1 /\ (SetMax(weights) - SetMin(weights)) * 100 > 30 * SetMin(weights)
                 THEN <<[kind |-> "variation", row |-> 0, field |-> "weight",
                         value |-> SetMax(weights) - SetMin(weights)]>>
                 ELSE <<>>)
              \o (IF bmiInconsistencies # {}
                    THEN <<[kind |-> "bmi", row |-> 0, field |-> "bmi",
                            value |-> Cardinality(bmiInconsistencies)]>>
                    ELSE <<>>),
            isValid |-> TRUE]

\* the duplicate check pushing the count only
DuplicateWarningsCountOnly(duplicates) ==
  IF Len(duplicates) > 0
    THEN <<[kind |-> "duplicates", row |-> 0, field |-> "date", value |-> Len(duplicates)]>>
    ELSE <<>>

\* the warnings of the duplicate check: the count, then one per duplicate date
DuplicateWarnings(duplicates) ==
  IF Len(duplicates) > 0
    THEN <<[kind |-> "duplicates", row |-> 0, field |-> "date", value |-> Len(duplicates)]>>
         \o [k \in 1..Len(duplicates) |->
               [kind |-> "duplicate", row |-> 0, field |-> duplicates[k].date,
                value |-> duplicates[k].count]]
    ELSE <<>>

\* validateMeasurements with isValid also requiring that there is no warning
validateMeasurementsWarnFree(data, duplicates, today) ==
  IF Len(data) = 0
    THEN [errors |-> <<[kind |-> "empty", row |-> 0, path |-> "",
                        message |-> "No valid measurements found in the CSV file"]>>,
          warnings |-> <<>>, isValid |-> FALSE]
    ELSE LET each == ValidateEach(data, 1)
             dateValidation == validateDateRange(data, today)
             consistencyValidation == validateMeasurementConsistency(data)
             errors == each.errors \o dateValidation.errors
             warnings == each.warnings \o DuplicateWarnings(duplicates)
                         \o dateValidation.warnings \o consistencyValidation.warnings
         IN  [errors |-> errors, warnings |-> warnings,
              isValid |-> Len(errors) = 0 /\ Len(warnings) = 0]

\* validateMeasurements going on to the duplicate check after the empty check
validateMeasurementsNoReturn(data, duplicates, today) ==
  IF Len(data) = 0
    THEN [errors |-> <<[kind |-> "empty", row |-> 0, path |-> "",
                        message |-> "No valid measurements found in the CSV file"]>>,
          warnings |-> DuplicateWarnings(duplicates), isValid |-> FALSE]
    ELSE LET each == ValidateEach(data, 1)
             dateValidation == validateDateRange(data, today)
             consistencyValidation == validateMeasurementConsistency(data)
             errors == each.errors \o dateValidation.errors
             warnings == each.warnings \o DuplicateWarnings(duplicates)
                         \o dateValidation.warnings \o consistencyValidation.warnings
         IN  [errors |-> errors, warnings |-> warnings, isValid |-> Len(errors) = 0]

validateMeasurements(data, duplicates, today) ==
  IF Len(data) = 0
    THEN [errors |-> <<[kind |-> "empty", row |-> 0, path |-> "",
                        message |-> "No valid measurements found in the CSV file"]>>,
          warnings |-> <<>>, isValid |-> FALSE]
    ELSE LET each == ValidateEach(data, 1)
             dateValidation == validateDateRange(data, today)
             consistencyValidation == validateMeasurementConsistency(data)
             errors == each.errors \o dateValidation.errors
             warnings == each.warnings \o DuplicateWarnings(duplicates)
                         \o dateValidation.warnings \o consistencyValidation.warnings
         IN  [errors |-> errors, warnings |-> warnings, isValid |-> Len(errors) = 0]

\* ---------------------------------------------------------- the files
RequiredColumns == {"Fecha", "Hora", "Peso", "IMC", "GrasaCorporal"}

\* file.size above which validateFile rejects the file
maxSize == 10485760

\* validateRenphoFormat(data): the Error it throws, its message "" when it
\* returns; named is the set of columns the message lists
validateRenphoFormat(file) ==
  IF Len(file.rows) = 0 THEN [message |-> "CSV file is empty", named |-> {}]
  ELSE IF RequiredColumns \ file.columns # {}
    THEN [message |-> "Missing required RENPHO columns",
          named |-> RequiredColumns \ file.columns]
  ELSE [message |-> "", named |-> {}]

\* CsvParsingService.parseRenphoCSV: the rows the promise resolves with, or
\* the RenphoImportError it rejects with (named: the columns its message
\* lists; details: the error it wraps); decoded tells whether Papa.parse ran
parseRenphoCSV(file) ==
  IF ~file.csv
    THEN [ok |-> FALSE, code |-> "INVALID_FILE",
          message |-> "Invalid file type. Please select a CSV file.",
          named |-> {}, decoded |-> FALSE]
  ELSE IF validateRenphoFormat(file).message # ""
    THEN [ok |-> FALSE, code |-> "PARSING_ERROR",
          message |-> "Failed to parse CSV data. Please ensure the file is exported from RENPHO app.",
          named |-> {}, decoded |-> TRUE, details |-> validateRenphoFormat(file)]
  ELSE [ok |-> TRUE, data |-> file.rows, decoded |-> TRUE]

\* RenphoImportService.validateFile: the error, "" when the file is accepted
validateFile(file) ==
  IF ~file.csv THEN "Please select a CSV file"
  ELSE IF file.size > maxSize THEN "File size too large. Maximum allowed size is 10MB"
  ELSE IF file.size = 0 THEN "Selected file is empty"
  ELSE ""

\* parseFile throwing when validation finds errors
parseFileStrict(file, today) ==
  LET raw == parseRenphoCSV(file)
  IN  IF ~raw.ok THEN raw
      ELSE LET t == transformRenphoData(raw.data)
           IN  IF ~t.ok
                 THEN [ok |-> FALSE, code |-> "PARSING_ERROR",
                       message |-> "Failed to transform row", row |-> t.row]
                 ELSE LET g == groupByDate(t.data)
                          v == validateMeasurements(t.data, g.duplicates, today)
                      IN  IF ~v.isValid
                            THEN [ok |-> FALSE, code |-> "VALIDATION_ERROR",
                                  message |-> "Validation failed"]
                            ELSE [ok |-> TRUE,
                                  result |-> [originalData |-> raw.data,
                                              transformedData |-> t.data,
                                              grouped |-> g.grouped,
                                              duplicates |-> g.duplicates,
                                              validation |-> v]]

\* RenphoImportService.parseFile at an instant of the day today: the
\* ParseResult, or the RenphoImportError thrown
parseFile(file, today) ==
  LET raw == parseRenphoCSV(file)
  IN  IF ~raw.ok THEN raw
      ELSE IF Len(raw.data) = 0
        THEN [ok |-> FALSE, code |-> "PARSING_ERROR", message |-> "No data found in CSV file"]
      ELSE LET t == transformRenphoData(raw.data)
           IN  IF ~t.ok
                 THEN [ok |-> FALSE, code |-> "PARSING_ERROR",
                       message |-> "Failed to transform row", row |-> t.row]
                 ELSE LET g == groupByDate(t.data)
                      IN  [ok |-> TRUE,
                           result |-> [originalData |-> raw.data,
                                       transformedData |-> t.data,
                                       grouped |-> g.grouped,
                                       duplicates |-> g.duplicates,
                                       validation |-> validateMeasurements(t.data, g.duplicates, today)]]

\* ------------------------------------------------------- Array.sort
RECURSIVE InsertDesc(_, _)
\* r placed in the list sorted, after every element the comparator does not
\* put behind it
InsertDesc(sorted, r) ==
  IF sorted = <<>> THEN <<r>>
  ELSE IF getTime(r.date) > getTime(Head(sorted).date) THEN <<r>> \o sorted
  ELSE <<Head(sorted)>> \o InsertDesc(Tail(sorted), r)

RECURSIVE SortFrom(_, _)
SortFrom(data, sorted) ==
  IF data = <<>> THEN sorted ELSE SortFrom(Tail(data), InsertDesc(sorted, Head(data)))

\* data.sort((a, b) => new Date(b.date).getTime() - new Date(a.date).getTime()):
\* the stable sort by date, latest first, of records whose dates are all valid
sortByDateDesc(data) == SortFrom(data, <<>>)

\* ----------------------------------------------- the import service
Strategies == {"average", "keep_all"}

\* The array a strategy selects from a ParseResult: its contents, and whether
\* it is parseResult.transformedData itself (keep_all) or a new array
finalDataOf(parseResult, strategy) ==
  IF strategy = "average"
    THEN [sameArray |-> FALSE, data |-> averageDailyMeasurements(parseResult.grouped)]
    ELSE [sameArray |-> TRUE, data |-> parseResult.transformedData]

\* processImport without the validation check
processImportUnchecked(parseResult, strategy) ==
  [ok |-> TRUE, finalData |-> finalDataOf(parseResult, strategy)]

\* RenphoImportService.processImport up to its await: the array it will
\* return, or the RenphoImportError thrown
processImport(parseResult, strategy) ==
  IF ~parseResult.validation.isValid
    THEN [ok |-> FALSE, code |-> "VALIDATION_ERROR",
          message |-> "Cannot import data with validation errors. Please fix the errors first."]
    ELSE [ok |-> TRUE, finalData |-> finalDataOf(parseResult, strategy)]

\* the ImportResult processImport returns after the delay
ImportResultOf(strategy, finalData) ==
  [strategy |-> strategy, successful |-> Len(finalData.data), failed |-> 0,
   errors |-> <<>>, processedData |-> finalData]

\* RenphoImportService.previewData: the array sorted in place, and the slice
\* returned
previewData(parseResult, strategy, limit) ==
  LET data == finalDataOf(parseResult, strategy)
      sorted == sortByDateDesc(data.data)
  IN  [sameArray |-> data.sameArray, sorted |-> sorted,
       slice |-> SubSeq(sorted, 1, IF Len(sorted) < limit THEN Len(sorted) ELSE limit)]

\* the UTF-16 code unit of a character the model's strings hold
charCode(c) ==
  IF c \in DigitSet THEN 48 + DigitVal(c)
  ELSE IF c = " " THEN 32
  ELSE IF c = "-" THEN 45
  ELSE IF c = "/" THEN 47
  ELSE IF c = "." THEN 46
  ELSE IF c = ":" THEN 58
  ELSE 120

RECURSIVE StringLeq(_, _)
\* a <= b in the order Array.prototype.sort() gives strings
StringLeq(a, b) ==
  IF a = <<>> THEN TRUE
  ELSE IF b = <<>> THEN FALSE
  ELSE IF Head(a) = Head(b) THEN StringLeq(Tail(a), Tail(b))
  ELSE charCode(Head(a)) < charCode(Head(b))

\* RenphoImportService.getImportStatistics; dates is sorted on a copy (map)
getImportStatistics(parseResult) ==
  LET transformedData == parseResult.transformedData
      dates == {transformedData[i].date : i \in 1..Len(transformedData)}
  IN  IF Len(transformedData) = 0
        THEN [totalMeasurements |-> 0, uniqueDates |-> 0, duplicateDates |-> 0,
              dateRange |-> NULL]
        ELSE [totalMeasurements |-> Len(transformedData),
              uniqueDates |-> Cardinality(dates),
              duplicateDates |-> Len(parseResult.duplicates),
              dateRange |-> [start |-> CHOOSE d \in dates : \A e \in dates : StringLeq(d, e),
                             end |-> CHOOSE d \in dates : \A e \in dates : StringLeq(e, d)]]

\* ------------------------------------------------------------ inputs
Chars(digits) == [i \in 1..Len(digits) |-> Digits[digits[i] + 1]]

\* the characters of day/month/year, each given by its digits
Fecha(d, m, y) == Chars(d) \o <<"/">> \o Chars(m) \o <<"/">> \o Chars(y)

MorningTime == <<" ">> \o Chars(<<7>>) \o <<":">> \o Chars(<<5, 7>>) \o <<":">> \o Chars(<<0, 6>>)
               \o <<" ", "a", ".", "m", ".">>
EveningTime == <<" ">> \o Chars(<<2, 1>>) \o <<":">> \o Chars(<<3, 0>>) \o <<":">> \o Chars(<<0, 0>>)

\* a row of a RENPHO export: the weight, BMI and body fat given, the other
\* columns typical
Row(fecha, hora, peso, imc, grasa) ==
  [Fecha |-> Txt(fecha), Hora |-> Txt(hora), Peso |-> Num(peso), IMC |-> Num(imc),
   GrasaCorporal |-> Num(grasa), MusculoEsqueletico |-> Num(500),
   PesoSinGrasa |-> Num(574), GrasaSubcutanea |-> Num(155), GrasaVisceral |-> Num(70),
   AguaCorporal |-> Num(590), MasaMuscular |-> Num(545), MasaOsea |-> Num(29),
   Proteina |-> Num(186), TMB |-> Num(16100), EdadMetabolica |-> Num(300),
   TipoCuerpo |-> Num(50)]

\* the rows the files of the hook specification are made of: two valid rows
\* in ascending date order and a row whose weight (25 kg) fails validation
SampleRows ==
  {Row(Fecha(<<0, 1>>, <<0, 1>>, <<2, 4>>), MorningTime, 700, 225, 180),
   Row(Fecha(<<0, 2>>, <<0, 1>>, <<2, 4>>), EveningTime, 720, 231, 185),
   Row(Fecha(<<0, 1>>, <<0, 1>>, <<2, 4>>), EveningTime, 250, 225, 180)}

RowLists == UNION {[1..n -> SampleRows] : n \in 0..MaxRows}

CsvFile(rows) == [csv |-> TRUE, size |-> 1024, columns |-> RequiredColumns, rows |-> rows]

OneRow == <<Row(Fecha(<<0, 1>>, <<0, 1>>, <<2, 4>>), MorningTime, 700, 225, 180)>>

\* the files a user may select: well-formed CSV files of up to MaxRows rows, a
\* file that is no .csv, an empty one, one above 10MB and one without IMC
Files ==
  {CsvFile(rows) : rows \in RowLists}
  \cup {[CsvFile(OneRow) EXCEPT !.csv = FALSE],
        [CsvFile(<<>>) EXCEPT !.size = 0, !.columns = {}],
        [CsvFile(OneRow) EXCEPT !.size = maxSize + 1],
        [CsvFile(OneRow) EXCEPT !.columns = RequiredColumns \ {"IMC"},
                                !.rows = <<[OneRow[1] EXCEPT !.IMC = Null]>>]}

\* the day validation runs on
Todays == {Chars(<<2, 0, 2, 5>>) \o <<"-">> \o Chars(<<0, 6>>) \o <<"-">> \o Chars(<<1, 5>>)}

\* -------------------------------------------------------------- state
VARIABLES
  selectedFile,    \* useRenphoImport: the File selected, or NULL
  parseResult,     \* the ParseResult, or NULL
  importResult,    \* the ImportResult, or NULL
  importProgress,  \* {step, progress, message}
  isProcessing,
  error,           \* the error message, NoError for null
  strategy,
  pendingParses,   \* the files of the RenphoImportService.parseFile calls awaited
  pendingImports,  \* the RenphoImportService.processImport calls awaited, oldest first
  timers,          \* the number of progress intervals set and not cleared
  today,           \* the day the session runs on
  returned,        \* per strategy, the results processImport has returned for
                   \* the ParseResult now in parseResult
  aggStep,         \* the aggregation pipeline run on its own: its position,
  data,            \* the records given to groupByDate,
  gb,              \* what groupByDate returned,
  avg,             \* what averageDailyMeasurements returned for gb.grouped,
  again,           \* and what grouping and averaging avg returned
  pStep,           \* RenphoImportService.parseFile run on its own: its position,
  pFile,           \* the file given to it,
  pRaw,            \* what parseRenphoCSV gave,
  pTx,             \* what transformRenphoData gave,
  pVal,            \* what validateMeasurements gave,
  pOut,            \* and what parseFile returned or threw
  toast,           \* the import page: the notification handleImportWithToast
                   \* showed last, "none" while it has shown none
  vStep,           \* validation and import run on their own: the position,
  vData,           \* the canonical records,
  vDup,            \* the duplicates list given with them,
  vVal,            \* what validateMeasurements returned,
  vImp,            \* what processImport returned or threw for them
  isDragActive,    \* useDragAndDrop: the state isDragActive,
  dragCounter,     \* the state dragCounter,
  renderedCounter, \* the dragCounter of the last render, which the
                   \* handlers in place have captured,
  dropOutcome      \* and what the last drop led to: the message given to
                   \* onError, "onFileDrop", or "none"

hookVars == <<selectedFile, parseResult, importResult, importProgress, isProcessing,
              error, strategy, pendingParses, pendingImports, timers, today,
              returned, toast>>
aggVars == <<aggStep, data, gb, avg, again>>
parseVars == <<pStep, pFile, pRaw, pTx, pVal, pOut>>
validateVars == <<vStep, vData, vDup, vVal, vImp>>
dragVars == <<isDragActive, dragCounter, renderedCounter, dropOutcome>>
vars == <<hookVars, aggVars, parseVars, validateVars, dragVars>>

NoError == "null"
PreviewLimit == 5

Progress(step, progress, text, n) ==
  [step |-> step, progress |-> progress, message |-> [text |-> text, n |-> n]]

NoReturns == [s \in Strategies |-> {}]

HookInit ==
  /\ selectedFile = NULL
  /\ parseResult = NULL
  /\ importResult = NULL
  /\ importProgress = Progress("upload", 0, "Ready to upload CSV file", 0)
  /\ isProcessing = FALSE
  /\ error = NoError
  /\ strategy = "average"
  /\ pendingParses = <<>>
  /\ pendingImports = <<>>
  /\ timers = 0
  /\ today \in Todays
  /\ returned = NoReturns
  /\ toast = "none"

AggIdle ==
  /\ aggStep = "input"
  /\ data = <<>>
  /\ gb = groupByDate(<<>>)
  /\ avg = <<>>
  /\ again = <<>>

NotRun == [ok |-> FALSE, code |-> "", message |-> ""]

ParseIdle ==
  /\ pStep = "file"
  /\ pFile = [csv |-> FALSE, size |-> 0, columns |-> {}, rows |-> <<>>]
  /\ pRaw = NotRun
  /\ pTx = NotRun
  /\ pVal = NotRun
  /\ pOut = NotRun

ValidateIdle ==
  /\ vStep = "input"
  /\ vData = <<>>
  /\ vDup = <<>>
  /\ vVal = NotRun
  /\ vImp = NotRun

\* useDragAndDrop after its first render
DragIdle ==
  /\ isDragActive = FALSE
  /\ dragCounter = 0
  /\ renderedCounter = 0
  /\ dropOutcome = "none"

Init == HookInit /\ AggIdle /\ ParseIdle /\ ValidateIdle /\ DragIdle

\* ------------------------------------------------ the hook's callbacks
\* The callbacks are those the import page takes from the hook.
\* The array of a ParseResult that leaves the hook's state can no longer be
\* sorted by getPreviewData; the results that hold it keep its contents.
Detached(finalData) == [finalData EXCEPT !.sameArray = FALSE]

DetachImports ==
  [i \in 1..Len(pendingImports) |->
     [pendingImports[i] EXCEPT !.finalData = Detached(@), !.current = FALSE]]

DetachResult(result) ==
  IF result = NULL THEN NULL ELSE [result EXCEPT !.processedData = Detached(@)]

\* parseFile of the hook, up to its await
StartParse(file) ==
  /\ isProcessing' = TRUE
  /\ error' = NoError
  /\ importProgress' = Progress("processing", 25, "Parsing CSV file...", 0)
  /\ pendingParses' = Append(pendingParses, file)

\* handleFileSelect(file)
SelectFile(file) ==
  /\ IF validateFile(file) # ""
       THEN /\ error' = validateFile(file)
            /\ UNCHANGED <<selectedFile, parseResult, importResult, importProgress,
                           isProcessing, pendingParses, pendingImports, returned>>
       ELSE /\ selectedFile' = file
            /\ parseResult' = NULL
            /\ importResult' = NULL
            /\ StartParse(file)
            /\ pendingImports' = DetachImports
            /\ returned' = NoReturns
  /\ UNCHANGED <<strategy, timers, today, toast, aggVars, parseVars, validateVars, dragVars>>

HandleFileSelect(file) ==
  /\ Len(pendingParses) < MaxParses
  /\ SelectFile(file)

\* the awaited RenphoImportService.parseFile call i settles
ParseSettle(i) ==
  /\ i \in 1..Len(pendingParses)
  /\ LET r == parseFile(pendingParses[i], today)
     IN  IF r.ok
           THEN /\ parseResult' = r.result
                /\ importProgress' = Progress("preview", 100, "File parsed successfully", 0)
                /\ importResult' = DetachResult(importResult)
                /\ pendingImports' = DetachImports
                /\ returned' = NoReturns
                /\ UNCHANGED error
           ELSE /\ error' = r.message
                /\ importProgress' = Progress("error", 0, "Failed to parse file", 0)
                /\ UNCHANGED <<parseResult, importResult, pendingImports, returned>>
  /\ isProcessing' = FALSE
  /\ pendingParses' = [k \in 1..(Len(pendingParses) - 1) |->
                         IF k < i THEN pendingParses[k] ELSE pendingParses[k + 1]]
  /\ UNCHANGED <<selectedFile, strategy, timers, today, toast, aggVars, parseVars, validateVars, dragVars>>

\* the notification handleImportWithToast of the page shows once its
\* await processImport() is over: the failure one when the call threw, the
\* success one when it returned
handleImportWithToast(threw) ==
  IF threw THEN "Import failed. Please try again." ELSE "Import completed successfully!"

\* processImport of the hook, which the page calls through
\* handleImportWithToast, up to its await; a call the service rejects runs
\* its catch and finally before anything else does.  The hook's processImport
\* returns on every path (it catches what the service throws).
ProcessImport ==
  /\ IF parseResult = NULL
       THEN /\ error' = "No data to import"
            /\ toast' = handleImportWithToast(FALSE)
            /\ UNCHANGED <<importProgress, isProcessing, pendingImports, timers>>
       ELSE /\ timers < MaxTimers
            /\ Len(pendingImports) < MaxImports
            /\ timers' = timers + 1
            /\ LET r == processImport(parseResult, strategy)
               IN  IF r.ok
                     THEN /\ isProcessing' = TRUE
                          /\ error' = NoError
                          /\ importProgress' = Progress("importing", 0, "Starting import...", 0)
                          /\ pendingImports' =
                               Append(pendingImports,
                                      [strategy |-> strategy, finalData |-> r.finalData,
                                       current |-> TRUE])
                          /\ UNCHANGED toast
                     ELSE /\ isProcessing' = FALSE
                          /\ error' = r.message
                          /\ importProgress' = Progress("error", 0, "Import failed", 0)
                          /\ toast' = handleImportWithToast(FALSE)
                          /\ UNCHANGED pendingImports
  /\ UNCHANGED <<selectedFile, parseResult, importResult, strategy, pendingParses, today,
                 returned, aggVars, parseVars, validateVars, dragVars>>

\* the oldest awaited RenphoImportService.processImport call returns
ImportSettle ==
  /\ pendingImports # <<>>
  /\ LET p == Head(pendingImports)
         result == ImportResultOf(p.strategy, p.finalData)
     IN  /\ importResult' = result
         /\ importProgress' = Progress("complete", 100, "Successfully imported", result.successful)
         /\ returned' =
              IF p.current
                THEN [returned EXCEPT ![p.strategy] =
                        @ \cup {[processedData |-> result.processedData.data,
                                 successful |-> result.successful, failed |-> result.failed]}]
                ELSE returned
  /\ pendingImports' = Tail(pendingImports)
  /\ timers' = timers - 1
  /\ isProcessing' = FALSE
  /\ toast' = handleImportWithToast(FALSE)
  /\ UNCHANGED <<selectedFile, parseResult, error, strategy, pendingParses, today,
                 aggVars, parseVars, validateVars, dragVars>>

\* a progress interval fires
Tick ==
  /\ timers > 0
  /\ importProgress' =
       [importProgress EXCEPT
          !.progress = IF @ + 20 < 90 THEN @ + 20 ELSE 90,
          !.message = [text |-> "Importing measurements...", n |-> 0]]
  /\ UNCHANGED <<selectedFile, parseResult, importResult, isProcessing, error, strategy,
                 pendingParses, pendingImports, timers, today, toast, returned, aggVars, parseVars, validateVars, dragVars>>

ResetImport ==
  /\ selectedFile' = NULL
  /\ parseResult' = NULL
  /\ importResult' = NULL
  /\ error' = NoError
  /\ isProcessing' = FALSE
  /\ strategy' = "average"
  /\ importProgress' = Progress("upload", 0, "Ready to upload CSV file", 0)
  /\ pendingImports' = DetachImports
  /\ returned' = NoReturns
  /\ UNCHANGED <<pendingParses, timers, today, toast, aggVars, parseVars, validateVars, dragVars>>

UpdateStrategy(newStrategy) ==
  /\ strategy' = newStrategy
  /\ UNCHANGED <<selectedFile, parseResult, importResult, importProgress, isProcessing,
                 error, pendingParses, pendingImports, timers, today, toast, returned, aggVars, parseVars, validateVars, dragVars>>

\* the contents of a held array after parseResult.transformedData was sorted
Resorted(finalData, sorted) ==
  IF finalData.sameArray THEN [finalData EXCEPT !.data = sorted] ELSE finalData

\* getPreviewData(5): previewData sorts the array the strategy selects, which
\* under keep_all is parseResult.transformedData and every result holding it;
\* the slice goes to the page
GetPreviewData ==
  /\ parseResult # NULL
  /\ LET p == previewData(parseResult, strategy, PreviewLimit)
     IN  /\ Len(p.slice) <= PreviewLimit
         /\ IF p.sameArray
              THEN /\ parseResult' = [parseResult EXCEPT !.transformedData = p.sorted]
                   /\ importResult' =
                        IF importResult = NULL THEN NULL
                        ELSE [importResult EXCEPT !.processedData = Resorted(@, p.sorted)]
                   /\ pendingImports' =
                        [i \in 1..Len(pendingImports) |->
                           [pendingImports[i] EXCEPT !.finalData = Resorted(@, p.sorted)]]
              ELSE UNCHANGED <<parseResult, importResult, pendingImports>>
  /\ UNCHANGED <<selectedFile, importProgress, isProcessing, error, strategy,
                 pendingParses, timers, today, toast, returned, aggVars, parseVars, validateVars, dragVars>>

\* getStatistics(): the statistics go to the page, nothing is written
GetStatistics ==
  /\ parseResult # NULL
  /\ getImportStatistics(parseResult).totalMeasurements = Len(parseResult.transformedData)
  /\ UNCHANGED vars

Next ==
  \/ \E file \in Files : HandleFileSelect(file)
  \/ \E i \in 1..MaxParses : ParseSettle(i)
  \/ ProcessImport
  \/ ImportSettle
  \/ Tick
  \/ ResetImport
  \/ \E newStrategy \in Strategies : UpdateStrategy(newStrategy)
  \/ GetPreviewData
  \/ GetStatistics

Spec == Init /\ [][Next]_vars

\* ------------------------------------ the aggregation pipeline on its own
\* groupByDate and averageDailyMeasurements applied to record lists that
\* transformRenphoData can produce: three measurements (weights 70.0, 72.0 and
\* 70.1 kg, visceral fat 7.0, -0.5 and -1.0, BMR 1610, 1611 and 1613, metabolic
\* age 30, -1 and -2) on each of two days.
Measurement(fecha, k) ==
  LET r == Row(fecha, IF k = 1 THEN MorningTime ELSE EveningTime,
               IF k = 1 THEN 700 ELSE IF k = 2 THEN 720 ELSE 701, 225, 180)
  IN  [r EXCEPT !.GrasaVisceral = Num(IF k = 1 THEN 70 ELSE IF k = 2 THEN -5 ELSE -10),
                !.TMB = Num(IF k = 1 THEN 16100 ELSE IF k = 2 THEN 16110 ELSE 16130),
                !.EdadMetabolica = Num(IF k = 1 THEN 300 ELSE IF k = 2 THEN -10 ELSE -20)]

AggRows ==
  {Measurement(fecha, k) :
     fecha \in {Fecha(<<1, 5>>, <<3>>, <<2, 4>>), Fecha(<<1, 5>>, <<0, 3>>, <<7, 5>>)},
     k \in 1..3}

AggRecords == {TransformRow(r).rec : r \in AggRows}

AggInit ==
  /\ HookInit
  /\ aggStep = "input"
  /\ data \in UNION {[1..n -> AggRecords] : n \in 0..MaxRecords}
  /\ gb = groupByDate(<<>>)
  /\ avg = <<>>
  /\ again = <<>>
  /\ ParseIdle
  /\ ValidateIdle
  /\ DragIdle

AggGroup ==
  /\ aggStep = "input"
  /\ gb' = groupByDate(data)
  /\ aggStep' = "grouped"
  /\ UNCHANGED <<data, avg, again, hookVars, parseVars, validateVars, dragVars>>

AggAverage ==
  /\ aggStep = "grouped"
  /\ avg' = averageDailyMeasurements(gb.grouped)
  /\ aggStep' = "averaged"
  /\ UNCHANGED <<data, gb, again, hookVars, parseVars, validateVars, dragVars>>

AggRegroup ==
  /\ aggStep = "averaged"
  /\ again' = averageDailyMeasurements(groupByDate(avg).grouped)
  /\ aggStep' = "regrouped"
  /\ UNCHANGED <<data, gb, avg, hookVars, parseVars, validateVars, dragVars>>

AggNext == AggGroup \/ AggAverage \/ AggRegroup

SpecAgg == AggInit /\ [][AggNext]_vars

\* ------------------------------------------ parseFile on its own
\* RenphoImportService.parseFile taken stage by stage (decode, transform,
\* group and validate, return) on files that exercise the date rule, the
\* numeric coercion, the range checks and the structural checks.

\* longest file, in rows, among the files built from PairRows
MaxFileRows == 2

\* the optional columns of a row and the record fields they fill
OptionalColumns ==
  {"MusculoEsqueletico", "PesoSinGrasa", "GrasaSubcutanea", "GrasaVisceral",
   "AguaCorporal", "MasaMuscular", "MasaOsea", "Proteina", "TMB", "EdadMetabolica",
   "TipoCuerpo"}

FieldOf ==
  [MusculoEsqueletico |-> "skeletal_muscle_percentage",
   PesoSinGrasa |-> "fat_free_body_weight",
   GrasaSubcutanea |-> "subcutaneous_fat_percentage",
   GrasaVisceral |-> "visceral_fat",
   AguaCorporal |-> "body_water_percentage",
   MasaMuscular |-> "muscle_mass",
   MasaOsea |-> "bone_mass",
   Proteina |-> "protein_percentage",
   TMB |-> "basal_metabolic_rate",
   EdadMetabolica |-> "metabolic_age",
   TipoCuerpo |-> "body_type"]

BaseRow == Row(Fecha(<<0, 1>>, <<0, 1>>, <<2, 4>>), MorningTime, 700, 225, 180)

\* day/month/two-digit-year for every year 00..99, day and month written with
\* one digit or two
DateRows ==
  {Row(Fecha(d, m, <<y1, y2>>), MorningTime, 700, 225, 180) :
     d \in {<<1, 5>>, <<5>>}, m \in {<<0, 3>>, <<3>>}, y1 \in 0..9, y2 \in 0..9}

\* dates that are no day/month/two-digit-year: 15-03-24, 15/03, 32/13/24,
\* aa/bb/cc, 15/03/2024
MalformedFechas ==
  {Chars(<<1, 5>>) \o <<"-">> \o Chars(<<0, 3>>) \o <<"-">> \o Chars(<<2, 4>>),
   Chars(<<1, 5>>) \o <<"/">> \o Chars(<<0, 3>>),
   Fecha(<<3, 2>>, <<1, 3>>, <<2, 4>>),
   <<"a", "a", "/", "b", "b", "/", "c", "c">>,
   Fecha(<<1, 5>>, <<0, 3>>, <<2, 0, 2, 4>>)}

\* rows with such a date, and a row whose Fecha cell is empty
MalformedDateRows ==
  {[BaseRow EXCEPT !.Fecha = Txt(f)] : f \in MalformedFechas}
  \cup {[BaseRow EXCEPT !.Fecha = NoTxt]}

\* weight, BMI and body fat at, inside and outside the bounds of the schema,
\* and a weight cell that is no number
RangeRows ==
  {Row(Fecha(<<0, 1>>, <<0, 1>>, <<2, 4>>), MorningTime, peso, imc, grasa) :
     peso \in {250, 300, 700, 3000, 3001}, imc \in {99, 100, 225, 600, 601},
     grasa \in {29, 30, 180, 700, 701}}
  \cup {[BaseRow EXCEPT !.Peso = Str]}

\* an optional column empty, no number, zero or 150
OptionalRows ==
  {[BaseRow EXCEPT ![c] = cell] :
     c \in OptionalColumns, cell \in {Null, Str, Num(0), Num(1500)}}

ParseRows == DateRows \cup MalformedDateRows \cup RangeRows \cup OptionalRows

\* the rows that files of more than one row are made of
PairRows ==
  {BaseRow,
   Row(Fecha(<<0, 2>>, <<0, 1>>, <<2, 4>>), EveningTime, 720, 231, 185),
   Row(Fecha(<<1, 5>>, <<0, 3>>, <<7, 5>>), EveningTime, 720, 231, 185),
   Row(Fecha(<<0, 1>>, <<0, 1>>, <<2, 4>>), EveningTime, 250, 225, 180),
   [BaseRow EXCEPT !.Fecha = Txt(Fecha(<<3, 2>>, <<1, 3>>, <<2, 4>>))],
   [BaseRow EXCEPT !.Fecha = Txt(Chars(<<1, 5>>) \o <<"/">> \o Chars(<<0, 3>>))],
   [BaseRow EXCEPT !.MusculoEsqueletico = Num(1500), !.TMB = Str]}

\* the files given to parseFile: one-row files of every row of ParseRows,
\* longer files of PairRows, files lacking required columns, and the files
\* validateFile rejects (no .csv, zero bytes, above 10MB)
ParseFiles ==
  {CsvFile(<<r>>) : r \in ParseRows}
  \cup {CsvFile(rows) : rows \in UNION {[1..n -> PairRows] : n \in 2..MaxFileRows}}
  \cup {[CsvFile(OneRow) EXCEPT !.columns = RequiredColumns \ missing] :
          missing \in (SUBSET RequiredColumns) \ {{}}}
  \cup {CsvFile(<<>>),
        [CsvFile(OneRow) EXCEPT !.csv = FALSE],
        [CsvFile(<<>>) EXCEPT !.size = 0, !.columns = {}],
        [CsvFile(OneRow) EXCEPT !.size = maxSize + 1]}

ParseInit ==
  /\ HookInit
  /\ AggIdle
  /\ pStep = "file"
  /\ pFile \in ParseFiles
  /\ pRaw = NotRun
  /\ pTx = NotRun
  /\ pVal = NotRun
  /\ pOut = NotRun
  /\ ValidateIdle
  /\ DragIdle

\* step 1 of parseFile: CsvParsingService.parseRenphoCSV
ParseDecode ==
  /\ pStep = "file"
  /\ pRaw' = parseRenphoCSV(pFile)
  /\ pStep' = "decoded"
  /\ UNCHANGED <<pFile, pTx, pVal, pOut, hookVars, aggVars, validateVars, dragVars>>

\* step 2: CsvParsingService.transformRenphoData
ParseTransform ==
  /\ pStep = "decoded"
  /\ pRaw.ok
  /\ Len(pRaw.data) # 0
  /\ pTx' = transformRenphoData(pRaw.data)
  /\ pStep' = "transformed"
  /\ UNCHANGED <<pFile, pRaw, pVal, pOut, hookVars, aggVars, validateVars, dragVars>>

\* steps 3 and 4: groupByDate and ImportValidationService.validateMeasurements
ParseValidate ==
  /\ pStep = "transformed"
  /\ pTx.ok
  /\ pVal' = validateMeasurements(pTx.data, groupByDate(pTx.data).duplicates, today)
  /\ pStep' = "validated"
  /\ UNCHANGED <<pFile, pRaw, pTx, pOut, hookVars, aggVars, validateVars, dragVars>>

\* parseFile returns the ParseResult, or throws where a step failed
ParseReturn ==
  /\ \/ pStep = "decoded" /\ ~pRaw.ok
     \/ pStep = "transformed" /\ ~pTx.ok
     \/ pStep = "validated"
  /\ pOut' = parseFile(pFile, today)
  /\ pStep' = "returned"
  /\ UNCHANGED <<pFile, pRaw, pTx, pVal, hookVars, aggVars, validateVars, dragVars>>

ParseNext == ParseDecode \/ ParseTransform \/ ParseValidate \/ ParseReturn

SpecParse == ParseInit /\ [][ParseNext]_vars

\* ------------------------------------ file selections that overlap
\* handleFileSelect called again while parses are awaited: the hook with
\* files whose parses may settle in any order.

\* number of parses that may be in flight at once when selections overlap
MaxRacing == 2

\* the files selected: three valid ones, one whose record fails validation
\* and two whose parse fails (no IMC column, no rows)
RaceFiles ==
  {CsvFile(<<BaseRow>>),
   CsvFile(<<>>),
   CsvFile(<<BaseRow, Row(Fecha(<<0, 2>>, <<0, 1>>, <<2, 4>>), EveningTime, 720, 231, 185)>>),
   CsvFile(<<Row(Fecha(<<0, 2>>, <<0, 1>>, <<2, 4>>), EveningTime, 720, 231, 185)>>),
   CsvFile(<<Row(Fecha(<<0, 1>>, <<0, 1>>, <<2, 4>>), EveningTime, 250, 225, 180)>>),
   [CsvFile(OneRow) EXCEPT !.columns = RequiredColumns \ {"IMC"}]}

HandleFileSelectRacing(file) ==
  /\ Len(pendingParses) < MaxRacing
  /\ SelectFile(file)

RaceNext ==
  \/ \E file \in RaceFiles : HandleFileSelectRacing(file)
  \/ \E i \in 1..MaxRacing : ParseSettle(i)

SpecRace == Init /\ [][RaceNext]_vars

\* ------ validation and import run on their own, on canonical records
MaxValidated == 3

\* records of two days with the hard-validated fields at and next to the
\* ends of their ranges, and with a weight below the range
ValidateRows ==
  {Row(Fecha(<<0, 1>>, <<0, 1>>, <<2, 4>>), MorningTime, 300, 100, 30),
   Row(Fecha(<<0, 1>>, <<0, 1>>, <<2, 4>>), EveningTime, 301, 101, 31),
   Row(Fecha(<<0, 1>>, <<0, 1>>, <<2, 4>>), MorningTime, 3000, 600, 700),
   Row(Fecha(<<0, 1>>, <<0, 1>>, <<2, 4>>), EveningTime, 2999, 599, 699),
   Row(Fecha(<<0, 1>>, <<0, 1>>, <<2, 4>>), EveningTime, 250, 225, 180),
   Row(Fecha(<<0, 2>>, <<0, 1>>, <<2, 4>>), MorningTime, 300, 100, 30),
   Row(Fecha(<<0, 2>>, <<0, 1>>, <<2, 4>>), EveningTime, 250, 225, 180)}

ValidateRecords == {TransformRow(r).rec : r \in ValidateRows}

\* duplicates lists of one and of two entries, given whatever the records are
GivenDuplicates ==
  LET d1 == TransformRow(Row(Fecha(<<0, 1>>, <<0, 1>>, <<2, 4>>), MorningTime, 300, 100, 30)).rec.date
      d2 == TransformRow(Row(Fecha(<<0, 2>>, <<0, 1>>, <<2, 4>>), MorningTime, 300, 100, 30)).rec.date
  IN  {<<[date |-> d1, count |-> 2]>>,
       <<[date |-> d1, count |-> 3], [date |-> d2, count |-> 2]>>}

ValidateInit ==
  /\ HookInit
  /\ AggIdle
  /\ ParseIdle
  /\ DragIdle
  /\ vStep = "input"
  /\ vData \in UNION {[1..n -> ValidateRecords] : n \in 0..MaxValidated}
  /\ vDup \in {<<>>, groupByDate(vData).duplicates} \cup GivenDuplicates
  /\ vVal = NotRun
  /\ vImp = NotRun

\* ImportValidationService.validateMeasurements(data, duplicates)
Validate ==
  /\ vStep = "input"
  /\ vVal' = validateMeasurements(vData, vDup, today)
  /\ vStep' = "validated"
  /\ UNCHANGED <<vData, vDup, vImp, hookVars, aggVars, parseVars, dragVars>>

\* RenphoImportService.processImport on the ParseResult of the records
Import(importStrategy) ==
  /\ vStep = "validated"
  /\ vImp' = processImport([transformedData |-> vData,
                            grouped |-> groupByDate(vData).grouped,
                            duplicates |-> vDup,
                            validation |-> vVal], importStrategy)
  /\ vStep' = "imported"
  /\ UNCHANGED <<vData, vDup, vVal, hookVars, aggVars, parseVars, dragVars>>

ValidateNext ==
  \/ Validate
  \/ \E importStrategy \in Strategies : Import(importStrategy)

SpecValidate == ValidateInit /\ [][ValidateNext]_vars

\* ------------------------------------------------- useDragAndDrop
MaxDrag == 3

maxFileSize == 10485760

acceptedTypes == {<<".", "csv">>}

\* String.prototype.toLowerCase on a word of a file name
LowerCaseWord(w) == IF w = "CSV" THEN "csv" ELSE IF w = "TXT" THEN "txt" ELSE w

\* useDragAndDrop's validateFile: the error, "" for a valid file; file.name is
\* the sequence of its parts between dots
validateDroppedFile(file) ==
  LET fileExtension == <<".", LowerCaseWord(file.name[Len(file.name)])>>
  IN  IF acceptedTypes # {} /\ fileExtension \notin acceptedTypes
        THEN "Invalid file type. Accepted types: .csv"
      ELSE IF file.size > maxFileSize THEN "File size too large. Maximum allowed: 10MB"
      ELSE IF file.size = 0 THEN "Selected file is empty"
      ELSE ""

\* what a drop can carry: no file, or a file
DroppedFiles ==
  {[name |-> name, size |-> size] :
     name \in {<<"data", "csv">>, <<"data", "CSV">>, <<"data", "txt">>, <<"data">>},
     size \in {0, 1024, maxFileSize + 1}}

DragInit ==
  /\ HookInit
  /\ AggIdle
  /\ ParseIdle
  /\ ValidateIdle
  /\ DragIdle

\* handleDragEnter: the pointer enters the zone or an element inside it
HandleDragEnter ==
  /\ dragCounter < MaxDrag
  /\ dragCounter' = dragCounter + 1
  /\ isDragActive' = TRUE
  /\ UNCHANGED <<renderedCounter, dropOutcome, hookVars, aggVars, parseVars, validateVars>>

\* handleDragLeave: the pointer leaves the zone or an element inside it; the
\* test reads the dragCounter the handler captured at the last render
HandleDragLeave ==
  /\ dragCounter > 0
  /\ dragCounter' = dragCounter - 1
  /\ isDragActive' = IF renderedCounter <= 1 THEN FALSE ELSE isDragActive
  /\ UNCHANGED <<renderedCounter, dropOutcome, hookVars, aggVars, parseVars, validateVars>>

\* handleDrop with the files of the drop: none, or the first of them
HandleDrop(files) ==
  /\ dragCounter > 0
  /\ isDragActive' = FALSE
  /\ dragCounter' = 0
  /\ dropOutcome' =
       IF files = <<>> THEN dropOutcome
       ELSE IF validateDroppedFile(files[1]) # "" THEN validateDroppedFile(files[1])
       ELSE "onFileDrop"
  /\ UNCHANGED <<renderedCounter, hookVars, aggVars, parseVars, validateVars>>

\* a render: the handlers are made anew and capture the current dragCounter
Render ==
  /\ renderedCounter # dragCounter
  /\ renderedCounter' = dragCounter
  /\ UNCHANGED <<isDragActive, dragCounter, dropOutcome, hookVars, aggVars, parseVars,
                 validateVars>>

DragNext ==
  \/ HandleDragEnter
  \/ HandleDragLeave
  \/ \E files \in {<<>>} \cup {<<f>> : f \in DroppedFiles} : HandleDrop(files)
  \/ Render

SpecDrag == DragInit /\ [][DragNext]_vars

\* ------------------------------------------------------------ properties
DatesOf(records) == {records[i].date : i \in 1..Len(records)}

\* the records of a list dated date, in the order of the list
RecordsOn(records, date) == SelectSeq(records, LAMBDA r : r.date = date)

RECURSIVE SumSeq(_)
\* the sum of a sequence of integers
SumSeq(seq) == IF seq = <<>> THEN 0 ELSE Head(seq) + SumSeq(Tail(seq))

\* the sum of F(x) over the elements x of a sequence
SumOver(seq, F(_)) == SumSeq([i \in 1..Len(seq) |-> F(seq[i])])

BucketSize(e) == Len(e.records)
CountOf(e) == e.count

\* the dates of data that more than one record has
DuplicateDates == {d \in DatesOf(data) : Len(RecordsOn(data, d)) > 1}

\* C4: groupByDate partitions its input exactly: no bucket is empty, no date
\* has two buckets, every date of the input has a bucket, a bucket holds
\* exactly the input's records of its date (whatever their times), in input
\* order, and the bucket sizes sum to the input length.
C4_GroupedPartitionsInput ==
  aggStep # "input" =>
    LET g == gb.grouped
    IN  /\ \A k \in 1..Len(g) : Len(g[k].records) > 0
        /\ \A k, l \in 1..Len(g) : g[k].date = g[l].date => k = l
        /\ {g[k].date : k \in 1..Len(g)} = DatesOf(data)
        /\ \A k \in 1..Len(g) : g[k].records = RecordsOn(data, g[k].date)
        /\ SumOver(g, BucketSize) = Len(data)

\* C4 witness: grouped, two buckets, one holding two records of one day taken
\* at different times
C4_Witness ==
  /\ aggStep = "grouped"
  /\ Len(gb.grouped) = 2
  /\ \E k \in 1..2 : /\ Len(gb.grouped[k].records) = 2
                     /\ gb.grouped[k].records[1].time # gb.grouped[k].records[2].time

\* C5: duplicates holds exactly one entry for each date with more than one
\* record, its count the number of records of that date, and no entry for a
\* date with a single record.
C5_DuplicatesAreTheRepeatedDates ==
  aggStep # "input" =>
    LET dup == gb.duplicates
    IN  /\ \A d \in DatesOf(data) :
             Cardinality({i \in 1..Len(dup) : dup[i].date = d})
               = IF Len(RecordsOn(data, d)) > 1 THEN 1 ELSE 0
        /\ \A i \in 1..Len(dup) :
             /\ dup[i].date \in DatesOf(data)
             /\ dup[i].count = Len(RecordsOn(data, dup[i].date))

\* C5 witness: one date with two records, listed, and one date with a single
\* record, not listed
C5_Witness ==
  /\ aggStep = "grouped"
  /\ Len(data) = 3
  /\ Cardinality(DatesOf(data)) = 2
  /\ Len(gb.duplicates) = 1
  /\ gb.duplicates[1].count = 2

\* C6 as stated: the counts of the duplicates list sum to the number of dates
\* that have more than one record.
C6_CountsSumToDuplicateDates ==
  aggStep # "input" => SumOver(gb.duplicates, CountOf) = Cardinality(DuplicateDates)

\* C6 amended: the duplicates list has as many entries as there are dates
\* with more than one record, and its counts sum to the number of records on
\* those dates.
C6_EntriesCountDuplicateDates ==
  aggStep # "input" =>
    /\ Len(gb.duplicates) = Cardinality(DuplicateDates)
    /\ SumOver(gb.duplicates, CountOf)
         = Cardinality({i \in 1..Len(data) : data[i].date \in DuplicateDates})

\* C6 witness: a date with three records
C6_Witness ==
  /\ aggStep = "grouped"
  /\ Len(gb.duplicates) = 1
  /\ gb.duplicates[1].count = 3

\* C7: averageDailyMeasurements emits one record per date of the input, in
\* the order of the buckets: its date is the bucket's, its time the time of
\* the first input record of that date, its source the import tag.
C7_OneAveragedRecordPerDate ==
  aggStep \in {"averaged", "regrouped"} =>
    /\ Len(avg) = Cardinality(DatesOf(data))
    /\ \A k \in 1..Len(avg) :
         /\ avg[k].date = gb.grouped[k].date
         /\ avg[k].time = RecordsOn(data, avg[k].date)[1].time
         /\ avg[k].source = "renpho_import"
    /\ \A k, l \in 1..Len(avg) : avg[k].date = avg[l].date => k = l

\* C7 witness: averaged, a date whose first and last records differ in time
C7_Witness ==
  /\ aggStep = "averaged"
  /\ \E k \in 1..Len(avg) :
       LET rs == RecordsOn(data, avg[k].date)
       IN  Len(rs) > 1 /\ rs[1].time # rs[Len(rs)].time /\ avg[k].time = rs[1].time

\* the integer nearest to n / d (d > 0), a tie going away from zero
RoundHalfAwayFromZero(n, d) ==
  IF n >= 0 THEN (2 * n + d) \div (2 * d) ELSE 0 - ((2 * (0 - n) + d) \div (2 * d))

Abs(x) == IF x < 0 THEN 0 - x ELSE x

\* C8 as stated: a decimal field of an averaged record is the mean over the
\* date's records rounded to one decimal, half away from zero; the three
\* integer fields are the mean rounded to the nearest integer.
C8_MeanRoundedHalfAwayFromZero ==
  aggStep \in {"averaged", "regrouped"} =>
    \A k \in 1..Len(avg) :
      LET rs == RecordsOn(data, avg[k].date)
          Sum(f) == SumOver(rs, LAMBDA r : r[f])
      IN  /\ \A f \in DecimalFields : avg[k][f] = RoundHalfAwayFromZero(Sum(f), Len(rs))
          /\ \A f \in IntegerFields :
               avg[k][f] = 10 * RoundHalfAwayFromZero(Sum(f), 10 * Len(rs))

\* C8 amended: a decimal field of an averaged record is a multiple of 0.1
\* nearest to the mean over the date's records (at most 0.05 from it), and
\* the three integer fields are an integer nearest to the mean (at most 0.5
\* from it); which neighbour an exact tie takes is not "away from zero".
C8_MeanRoundedToNearest ==
  aggStep \in {"averaged", "regrouped"} =>
    \A k \in 1..Len(avg) :
      LET rs == RecordsOn(data, avg[k].date)
          n == Len(rs)
          Sum(f) == SumOver(rs, LAMBDA r : r[f])
      IN  /\ \A f \in DecimalFields : 2 * Abs(n * avg[k][f] - Sum(f)) <= n
          /\ \A f \in IntegerFields :
               /\ avg[k][f] % 10 = 0
               /\ 2 * Abs(n * avg[k][f] - Sum(f)) <= 10 * n

\* C8 witness: weights 70.0 and 72.0 on one date averaged to 71.0, the mean of
\* visceral fat 7.0 and -0.5 (3.25) rounded to 3.3 and of BMR 1610 and 1611 to
\* 1611
C8_Witness ==
  /\ aggStep = "averaged"
  /\ \E k \in 1..Len(avg) :
       LET rs == RecordsOn(data, avg[k].date)
       IN  /\ Len(rs) = 2
           /\ {rs[1].weight, rs[2].weight} = {700, 720}
           /\ avg[k].weight = 710
           /\ avg[k].visceral_fat = 33
           /\ avg[k].basal_metabolic_rate = 16110

\* C9: grouping the averaged records by date and averaging them again
\* returns the averaged records, each field unchanged.
C9_AveragingIsIdempotent == aggStep = "regrouped" => again = avg

\* C9 witness: regrouped, the first averaging having merged and rounded
\* records (a date of two records whose mean weight is no input weight)
C9_Witness ==
  /\ aggStep = "regrouped"
  /\ Len(avg) = 2
  /\ Len(data) = 3
  /\ \E k \in 1..2 : \A i \in 1..3 : avg[k].weight # data[i].weight

ValidationBlocked == "Cannot import data with validation errors. Please fix the errors first."

\* C1: processImport on a ParseResult whose validation.isValid is false fails
\* with the validation error and starts no aggregation or persistence step:
\* no import is awaited, nothing is returned, importResult is left as it was
\* (null stays null); and a result is only ever returned for a ParseResult
\* that is valid.
C1_InvalidParseResultBlocksImport ==
  /\ [][(ProcessImport /\ parseResult # NULL /\ ~parseResult.validation.isValid) =>
          /\ error' = ValidationBlocked
          /\ importProgress'.step = "error"
          /\ importResult' = importResult
          /\ pendingImports' = pendingImports
          /\ returned' = returned]_vars
  /\ [](\A s \in Strategies : returned[s] # {} => parseResult.validation.isValid)

\* C1 witness: the hook after a blocked processImport call
C1_Witness ==
  /\ parseResult # NULL
  /\ ~parseResult.validation.isValid
  /\ error = ValidationBlocked
  /\ importProgress.step = "error"
  /\ importResult = NULL
  /\ pendingImports = <<>>

\* C2 as stated: previewData, getImportStatistics and processImport leave the
\* ParseResult as it was, contents and order.
C2_CallsLeaveParseResultUnchanged ==
  [][(GetPreviewData \/ GetStatistics \/ ProcessImport \/ ImportSettle)
       => parseResult' = parseResult]_vars

\* C3 as stated: what processImport returns under keep_all is the transform
\* of the file's rows, one record per row, in row order.
C3_KeepAllReturnsTheRowsInOrder ==
  \A r \in returned["keep_all"] :
    /\ Len(r.processedData) = Len(parseResult.originalData)
    /\ \A i \in 1..Len(r.processedData) :
         r.processedData[i] = TransformRow(parseResult.originalData[i]).rec

\* C10 as stated: every processImport call made with one strategy on one
\* ParseResult returns the same processedData and the same counts.
C10_ImportReturnsTheSameEachTime ==
  \A s \in Strategies : Cardinality(returned[s]) <= 1

\* ------------------------------------------------ properties of parseFile
\* the number a string of digits writes
ValueOf(digits) == DigitRun(digits, 0)

\* n written with two digits
TwoDigits(n) == <<Digits[(n \div 10) + 1], Digits[(n % 10) + 1]>>

\* a Fecha cell holding day/month/two-digit-year that names a calendar day
ValidFecha(cell) ==
  /\ cell.t = "txt"
  /\ LET parts == split(cell.s, "/")
     IN  /\ Len(parts) = 3
         /\ \A k \in 1..3 : parts[k] # <<>> /\ AllDigits(parts[k])
         /\ Len(parts[1]) <= 2 /\ Len(parts[2]) <= 2 /\ Len(parts[3]) = 2
         /\ ValueOf(parts[2]) \in 1..12
         /\ LET yy == ValueOf(parts[3])
            IN  ValueOf(parts[1]) \in
                  1..DaysInMonth(IF yy >= 50 THEN 1900 + yy ELSE 2000 + yy, ValueOf(parts[2]))

\* the ISO date the date rule gives a valid Fecha cell
ExpectedIso(cell) ==
  LET parts == split(cell.s, "/")
      yy == ValueOf(parts[3])
  IN  (IF yy >= 50 THEN <<"1", "9">> ELSE <<"2", "0">>) \o TwoDigits(yy)
      \o <<"-">> \o TwoDigits(ValueOf(parts[2])) \o <<"-">> \o TwoDigits(ValueOf(parts[1]))

\* the rows of the decoded file whose date is malformed
MalformedRows == {i \in 1..Len(pRaw.data) : ~ValidFecha(pRaw.data[i].Fecha)}

Transformed == pStep \in {"transformed", "validated", "returned"} /\ pRaw.ok

\* C11: transformRenphoData maps day/month/two-digit-year to the ISO date
\* whose year is 19yy for yy >= 50 and 20yy for yy < 50, month and day padded
\* to two digits, for every two-digit year.
C11_DateMapsByCenturyPivot ==
  (Transformed /\ pTx.ok) =>
    \A i \in 1..Len(pRaw.data) :
      ValidFecha(pRaw.data[i].Fecha) => pTx.data[i].date = ExpectedIso(pRaw.data[i].Fecha)

\* C11 witness: 5/3/75 transformed to 1975-03-05
C11_Witness ==
  /\ Transformed /\ pTx.ok
  /\ pRaw.data[1].Fecha.s = <<"5", "/", "3", "/", "7", "5">>
  /\ pTx.data[1].date = <<"1", "9", "7", "5", "-", "0", "3", "-", "0", "5">>

\* C12 as stated: every record transformRenphoData returns has a date of the
\* form YYYY-MM-DD that names a calendar day.
C12_RecordDatesAreCalendarDates ==
  (Transformed /\ pTx.ok) => \A i \in 1..Len(pTx.data) : isValidDate(pTx.data[i].date)

\* C13 as stated: a row with a malformed date makes transformRenphoData fail,
\* naming the first such row, and parseFile produce no ParseResult.
C13_MalformedDateAbortsTransform ==
  (Transformed /\ MalformedRows # {}) =>
    /\ ~pTx.ok
    /\ pTx.row = SetMin(MalformedRows)
    /\ pStep = "returned" => ~pOut.ok

\* C14 as stated: an optional numeric field whose raw value is missing or no
\* number is 0 in the record, and a numeric raw value is kept.
C14_OptionalFieldsDefaultToZero ==
  (Transformed /\ pTx.ok) =>
    \A i \in 1..Len(pRaw.data) : \A c \in OptionalColumns :
      pTx.data[i][FieldOf[c]] = IF pRaw.data[i][c].t = "num" THEN pRaw.data[i][c].v ELSE 0

Validated == pStep \in {"validated", "returned"} /\ pRaw.ok /\ pTx.ok

\* C15: every ValidationResult validateMeasurements returns has isValid true
\* exactly when its errors list is empty, the result for no records included.
C15_IsValidIffNoErrors ==
  /\ Validated => (pVal.isValid <=> pVal.errors = <<>>)
  /\ LET none == validateMeasurements(<<>>, <<>>, today)
     IN  none.isValid <=> none.errors = <<>>

\* C15 witness: a result that is valid although it carries warnings
C15_Witness == Validated /\ pVal.isValid /\ pVal.errors = <<>> /\ pVal.warnings # <<>>

\* C16 as stated: isValid is true exactly when the emptiness stage and the
\* weight/BMI/body-fat range stage produced no error.
C16_OnlyRangeErrorsInvalidate ==
  Validated =>
    (pVal.isValid <=>
       (Len(pTx.data) > 0 /\ \A i \in 1..Len(pTx.data) : weightValidationSchema(pTx.data[i]) = <<>>))

\* a value that is not within [lo, hi]; no number counts as outside
Outside(v, lo, hi) == isNaN(v) \/ v < lo \/ v > hi

\* the number of range errors of a result tagged with a row and a field
RangeErrors(result, row, path) ==
  Cardinality({k \in 1..Len(result.errors) :
                 /\ result.errors[k].kind = "range"
                 /\ result.errors[k].row = row
                 /\ result.errors[k].path = path})

\* C17: for each record, weight outside [30, 300], BMI outside [10, 60] and
\* body fat outside [3, 70] each produce exactly one error tagged with the
\* record's 1-based row number, and values within the closed ranges none; a
\* single record with weight 25 and nothing else wrong gives isValid false
\* and exactly one error, "Minimum weight is 30kg".
C17_OneErrorPerRangeViolation ==
  Validated =>
    /\ \A i \in 1..Len(pTx.data) :
         /\ RangeErrors(pVal, i, "weight") = IF Outside(pTx.data[i].weight, 300, 3000) THEN 1 ELSE 0
         /\ RangeErrors(pVal, i, "bmi") = IF Outside(pTx.data[i].bmi, 100, 600) THEN 1 ELSE 0
         /\ RangeErrors(pVal, i, "body_fat_percentage") =
              IF Outside(pTx.data[i].body_fat_percentage, 30, 700) THEN 1 ELSE 0
    /\ \A k \in 1..Len(pVal.errors) :
         pVal.errors[k].kind = "range" => pVal.errors[k].row \in 1..Len(pTx.data)
    /\ (/\ Len(pTx.data) = 1
        /\ pTx.data[1].weight = 250
        /\ ~Outside(pTx.data[1].bmi, 100, 600)
        /\ ~Outside(pTx.data[1].body_fat_percentage, 30, 700)
        /\ isValidDate(pTx.data[1].date))
       => /\ ~pVal.isValid
          /\ Len(pVal.errors) = 1
          /\ pVal.errors[1].message = "Minimum weight is 30kg"

\* C17 witness: a record with weight 300.1, BMI 9.9 and body fat 70.1 has
\* three errors, all of row 1
C17_Witness ==
  /\ Validated
  /\ Len(pTx.data) = 1
  /\ pTx.data[1].weight = 3001 /\ pTx.data[1].bmi = 99
  /\ pTx.data[1].body_fat_percentage = 701
  /\ Len(pVal.errors) = 3
  /\ \A k \in 1..3 : pVal.errors[k].row = 1

AdvisoryBands ==
  [skeletal_muscle_percentage |-> <<0, 1000>>,
   body_water_percentage |-> <<300, 800>>,
   visceral_fat |-> <<0, 300>>,
   basal_metabolic_rate |-> <<8000, 40000>>,
   metabolic_age |-> <<100, 1200>>]

AdvisoryFields == DOMAIN AdvisoryBands

\* values an advisory field is changed to
AdvisoryValues == {NaN, -10, 0, 1500, 500000}

\* the ParseResult parseFile builds from canonical records
ParseResultOf(records) ==
  [transformedData |-> records,
   grouped |-> groupByDate(records).grouped,
   duplicates |-> groupByDate(records).duplicates,
   validation |-> validateMeasurements(records, groupByDate(records).duplicates, today)]

\* C18: an advisory field outside its band produces a warning for its row and
\* no error names an advisory field; changing one advisory field of one
\* record to any value changes neither isValid nor whether processImport is
\* blocked.
C18_AdvisoryFieldsOnlyWarn ==
  Validated =>
    /\ \A i \in 1..Len(pTx.data) : \A f \in AdvisoryFields :
         LET v == pTx.data[i][f]
         IN  (~isNaN(v) /\ (v < AdvisoryBands[f][1] \/ v > AdvisoryBands[f][2]))
               => \E k \in 1..Len(pVal.warnings) :
                    /\ pVal.warnings[k].kind = "unusual"
                    /\ pVal.warnings[k].row = i
                    /\ pVal.warnings[k].field = f
    /\ \A k \in 1..Len(pVal.errors) : pVal.errors[k].path \notin AdvisoryFields
    /\ \A i \in 1..Len(pTx.data) : \A f \in AdvisoryFields : \A v \in AdvisoryValues :
         LET changed == ParseResultOf([pTx.data EXCEPT ![i][f] = v])
         IN  /\ changed.validation.isValid = pVal.isValid
             /\ \A st \in Strategies :
                  processImport(changed, st).ok = processImport(ParseResultOf(pTx.data), st).ok

\* C18 witness: skeletal muscle 150 on a record that is valid: a warning, and
\* the result stays valid
C18_Witness ==
  /\ Validated
  /\ pTx.data[1].skeletal_muscle_percentage = 1500
  /\ pVal.isValid
  /\ \E k \in 1..Len(pVal.warnings) :
       pVal.warnings[k].kind = "unusual" /\ pVal.warnings[k].field = "skeletal_muscle_percentage"

\* the required columns a file lacks
MissingColumns == RequiredColumns \ pFile.columns

\* C19 as stated: a file lacking a required column makes parseRenphoCSV and
\* parseFile fail with an error that names the missing columns, before any
\* row is transformed, and no ParseResult is produced.
C19_MissingColumnErrorNamesIt ==
  (pStep # "file" /\ pFile.csv /\ Len(pFile.rows) > 0 /\ MissingColumns # {}) =>
    /\ ~pRaw.ok
    /\ pRaw.named = MissingColumns
    /\ pTx = NotRun
    /\ pStep = "returned" => (~pOut.ok /\ pOut.named = MissingColumns)

\* C20 as stated: a file that validateFile rejects (no .csv, above 10MB, zero
\* bytes) is rejected by parseFile as an invalid file before it is decoded,
\* and no stage runs on it.
C20_RejectedFilesNeverDecoded ==
  (pStep # "file" /\ validateFile(pFile) # "") =>
    /\ ~pRaw.ok
    /\ pRaw.code = "INVALID_FILE"
    /\ ~pRaw.decoded
    /\ pTx = NotRun
    /\ pVal = NotRun
    /\ pStep = "returned" => ~pOut.ok

\* C28 as stated: once no parse is in flight, parseResult and the error and
\* step are the outcome of parsing the file now selected, whatever the order
\* in which the parses settled; and isProcessing is false only when no parse
\* is in flight.
C28_LastSelectedFileWins ==
  /\ (pendingParses = <<>> /\ selectedFile # NULL) =>
       LET r == parseFile(selectedFile, today)
       IN  IF r.ok
             THEN /\ parseResult = r.result
                  /\ error = NoError
                  /\ importProgress.step = "preview"
             ELSE /\ parseResult = NULL
                  /\ error = r.message
                  /\ importProgress.step = "error"
  /\ ~isProcessing => pendingParses = <<>>

\* the file decodes and every row of it transforms
DecodesAndTransforms(file) ==
  /\ parseRenphoCSV(file).ok
  /\ transformRenphoData(parseRenphoCSV(file).data).ok

\* every element of the sequence part is an element of the sequence whole
Among(part, whole) ==
  \A k \in 1..Len(part) : \E j \in 1..Len(whole) : whole[j] = part[k]

\* the errors and the warnings of every record are among those of a
\* validation outcome
CarriesAllFindings(validation, records) ==
  \A i \in 1..Len(records) :
    LET own == validateSingleMeasurement(records[i], i)
    IN  /\ Among(own.errors, validation.errors)
        /\ Among(own.warnings, validation.warnings)

\* C21: when the parse of a file that decodes and transforms settles, the
\* hook holds a ParseResult with the records of every row and a validation
\* outcome carrying the errors and warnings of every record, and is at step 'preview',
\* also when the outcome is invalid.
C21_InvalidDataStillYieldsParseResult ==
  [][\A i \in 1..Len(pendingParses) :
       (ParseSettle(i) /\ DecodesAndTransforms(pendingParses[i])) =>
         /\ parseResult' # NULL
         /\ Len(parseResult'.transformedData) = Len(pendingParses[i].rows)
         /\ CarriesAllFindings(parseResult'.validation, parseResult'.transformedData)
         /\ parseResult'.validation.isValid = (parseResult'.validation.errors = <<>>)
         /\ importProgress'.step = "preview"
         /\ error' = error]_vars

\* C21 witness: at step 'preview' with a ParseResult whose two records both
\* have an error
C21_Witness ==
  /\ parseResult # NULL
  /\ importProgress.step = "preview"
  /\ ~parseResult.validation.isValid
  /\ Len(parseResult.transformedData) = 2
  /\ Len(parseResult.validation.errors) = 2

\* C26 as stated: when no import is awaited, no progress interval is left
\* running, and no tick changes importProgress once the step is 'complete'
\* or 'error'.
C26_TimersClearedWhenImportEnds ==
  /\ [](pendingImports = <<>> => timers = 0)
  /\ [][(Tick /\ pendingImports = <<>> /\ importProgress.step \in {"complete", "error"})
          => importProgress' = importProgress]_vars

\* the hook state resetImport leaves
ResetState ==
  /\ selectedFile = NULL
  /\ parseResult = NULL
  /\ importResult = NULL
  /\ error = NoError
  /\ ~isProcessing
  /\ importProgress.step = "upload"
  /\ importProgress.progress = 0

\* C27 as stated: the state resetImport leaves is kept by everything that is
\* no call of the page: a parse or an import settling, a progress tick.
C27_ResetStateStaysUntilNextCall ==
  [][(ResetState /\ ((\E i \in 1..MaxParses : ParseSettle(i)) \/ ImportSettle \/ Tick))
       => ResetState']_vars

\* C30 as stated: the success notification is shown only for an import that
\* reached step 'complete'; an import that fails or is blocked shows the
\* failure notification.
C30_SuccessToastOnlyOnComplete ==
  [][(ProcessImport \/ ImportSettle) =>
       /\ toast' = handleImportWithToast(FALSE) => importProgress'.step = "complete"
       /\ (importProgress'.step = "error" \/ error' = "No data to import")
            => toast' = handleImportWithToast(TRUE)]_vars

\* a record with positive weight and BMI whose weight / BMI is outside
\* [1.44, 6.25]
ImpliedHeightOutside(m) ==
  /\ ~isNaN(m.weight) /\ ~isNaN(m.bmi)
  /\ m.weight > 0 /\ m.bmi > 0
  /\ ~(144 * m.bmi <= 100 * m.weight /\ 100 * m.weight <= 625 * m.bmi)

\* the warnings of a validation outcome that count inconsistent BMI
BmiWarnings(validation) ==
  {k \in 1..Len(validation.warnings) : validation.warnings[k].kind = "bmi"}

\* C22 as stated: for a non-empty record set of any size, a single record
\* included, the records with implied height outside [1.2, 2.5] m are
\* reported as exactly one warning carrying their count when there is one,
\* and as no warning when there is none.
C22_InconsistentBmiReportedForAnySize ==
  (Validated /\ Len(pTx.data) > 0) =>
    LET n == Cardinality({i \in 1..Len(pTx.data) : ImpliedHeightOutside(pTx.data[i])})
    IN  IF n >= 1
          THEN /\ Cardinality(BmiWarnings(pVal)) = 1
               /\ \A k \in BmiWarnings(pVal) : pVal.warnings[k].value = n
          ELSE BmiWarnings(pVal) = {}

\* the warnings of the duplicate check in a validation outcome
DuplicateFindings(validation) ==
  {k \in 1..Len(validation.warnings) :
     validation.warnings[k].kind \in {"duplicates", "duplicate"}}

\* C23: validateMeasurements on zero records returns exactly one error, no
\* warning and isValid false, whatever the duplicates list given with them.
C23_EmptyDataShortCircuits ==
  (vStep # "input" /\ Len(vData) = 0) =>
    /\ Len(vVal.errors) = 1
    /\ vVal.errors[1].kind = "empty"
    /\ vVal.warnings = <<>>
    /\ ~vVal.isValid

\* C23 witness: zero records validated with a duplicates list of two entries
C23_Witness == vStep = "validated" /\ Len(vData) = 0 /\ Len(vDup) = 2

\* C24: for a non-empty record set and a duplicates list of d entries the
\* outcome has d + 1 duplicate warnings when d >= 1, one stating d and one per
\* entry naming its date and count, and none when d = 0.
C24_DuplicateWarningsCount ==
  (vStep # "input" /\ Len(vData) > 0) =>
    LET d == Len(vDup)
        found == DuplicateFindings(vVal)
    IN  IF d >= 1
          THEN /\ Cardinality(found) = d + 1
               /\ Cardinality({k \in found : /\ vVal.warnings[k].kind = "duplicates"
                                             /\ vVal.warnings[k].value = d}) = 1
               /\ \A e \in 1..d :
                    \E k \in found : /\ vVal.warnings[k].kind = "duplicate"
                                     /\ vVal.warnings[k].field = vDup[e].date
                                     /\ vVal.warnings[k].value = vDup[e].count
          ELSE found = {}

\* C24 witness: three records validated with a duplicates list of two
\* entries, and three duplicate warnings in the outcome
C24_Witness ==
  /\ vStep = "validated"
  /\ Len(vData) = 3
  /\ Len(vDup) = 2
  /\ Cardinality(DuplicateFindings(vVal)) = 3

\* C29: when the validation outcome is valid, every record processImport
\* returns, under keep_all and under average, has weight in [30, 300], BMI in
\* [10, 60] and body fat in [3, 70].
C29_ImportedRecordsStayInRange ==
  (vStep = "imported" /\ vVal.isValid) =>
    /\ vImp.ok
    /\ \A k \in 1..Len(vImp.finalData.data) :
         LET m == vImp.finalData.data[k]
         IN  /\ ~Outside(m.weight, 300, 3000)
             /\ ~Outside(m.bmi, 100, 600)
             /\ ~Outside(m.body_fat_percentage, 30, 700)

\* C29 witness: valid records of one day at the upper ends of the ranges,
\* averaged into one record
C29_Witness ==
  /\ vStep = "imported"
  /\ vVal.isValid
  /\ vImp.ok
  /\ Len(vData) = 3
  /\ Len(vImp.finalData.data) = 1
  /\ \E i, j \in 1..3 : vData[i].weight = 3000 /\ vData[j].weight = 2999

\* C25 as stated: whatever drag-enter, drag-leave and drop events were
\* handled, isDragActive is true exactly when the drag counter is above 0.
C25_ActiveExactlyWhileCounterPositive ==
  isDragActive <=> dragCounter > 0

====
